---- MODULE Spec2Model ----
(***************************************************************************)
(* Model of get_next_access_unit() (docs/get_next_access_unit.py): the     *)
(* H.264 access unit builder of tstools.  One call of the function is      *)
(* modelled as Begin (the code before the loop), one action per loop       *)
(* iteration (one per outcome of context.find_next_NAL_unit() and per NAL  *)
(* unit category), and Finish (the code after the loop).                   *)
(*                                                                         *)
(* A second specification, SpecPacket, models get_packet() of sockread.py  *)
(* and socktest.py, called in a loop by main() through read_next_packet(): *)
(* GetPacket (the code before the loop), Recv (one loop iteration) and     *)
(* Return (the return and the count in main()).                            *)
(***************************************************************************)
EXTENDS Integers, Sequences, FiniteSets, TLC

\* ------------------------------------------------------------------------
\* Bounds of the model
MaxReads == 4     \* NAL units and BrokenNALUnit reports the source gives
                  \* at most before it raises EOF
MaxCalls == 5     \* calls of get_next_access_unit at most
MaxPacketSize == 3    \* packet_size of get_packet at most
MaxPackets == 2       \* packets main() reads at most

\* ------------------------------------------------------------------------
\* NAL unit types: the code names them, their values are those of the
\* nal_unit_type field of H.264 (the code itself writes 13 to 18 as numbers)
NAL_SEI               == 6
NAL_SEQ_PARAM_SET     == 7
NAL_PIC_PARAM_SET     == 8
NAL_ACCESS_UNIT_DELIM == 9
NAL_END_OF_SEQ        == 10
NAL_END_OF_STREAM     == 11

\* The nal_unit_type values the source draws from: a slice (1), SEI, a
\* parameter set, the delimiter, both end markers and one type the builder
\* ignores (12, filler data).
NalTypes == {1, NAL_SEI, NAL_SEQ_PARAM_SET, NAL_ACCESS_UNIT_DELIM,
             NAL_END_OF_SEQ, NAL_END_OF_STREAM, 12}

\* Values of the slice header field that tells pictures apart
FrameNums == {0, 1}

NULL == [id |-> 0, nal_unit_type |-> 0, frame_num |-> 0, redundant |-> FALSE]

VARIABLES
    delivered,     \* the NAL units find_next_NAL_unit has returned, in order
    exhausted,     \* the source has raised EOF
    broken_total,  \* BrokenNALUnit reports raised so far
    context,       \* the access unit context, carried across calls
    access_unit,   \* the access unit being built by the current call
    pc,            \* "idle" (between calls), "loop", "done" (after the loop)
    call,          \* what the current call has done so far
    results,       \* one entry per finished call, in order
    warnings,      \* the WARNING()s emitted, in order
    dropped,       \* NAL units read and thrown away, with the reason
    sock,          \* the connection: whether the peer has closed it
    packet_size,   \* the argument of get_packet
    data,          \* get_packet's data
    total,         \* get_packet's total
    step,          \* where main() is: "main" (between packets), "loop" (in
                   \* get_packet) or "DoneException" (after it was raised)
    received,      \* what sock.recv has returned to this call, in order
    total_packets  \* main()'s count of packets read

unit_vars == <<delivered, exhausted, broken_total, context, access_unit, pc,
               call, results, warnings, dropped>>

packet_vars == <<sock, packet_size, data, total, step, received,
                 total_packets>>

vars == <<unit_vars, packet_vars>>

\* ------------------------------------------------------------------------
\* Helpers on sequences
RECURSIVE Concat(_)
Concat(ss) == IF ss = <<>> THEN <<>> ELSE Head(ss) \o Concat(Tail(ss))

Range(s) == {s[i] : i \in DOMAIN s}

Ids(s) == {s[i].id : i \in DOMAIN s}

\* ------------------------------------------------------------------------
\* NAL unit classification
is_slice(nal) == nal.nal_unit_type \in {1, 5}

\* A slice starts a new primary picture when its slice header differs from
\* that of the slice remembered as the earlier primary start.
is_first_VCL_NAL(nal, earlier_primary_start) ==
    \/ earlier_primary_start = NULL
    \/ nal.frame_num # earlier_primary_start.frame_num

nal_is_redundant(nal) == nal.redundant

is_context_NAL(nal) ==
    nal.nal_unit_type \in {NAL_SEQ_PARAM_SET, NAL_PIC_PARAM_SET,
                           13, 14, 15, 16, 17, 18}

\* ------------------------------------------------------------------------
\* Access unit and pending list operations
build_access_unit ==
    [nal_units |-> <<>>, started_primary_picture |-> FALSE,
     primary_starts |-> <<>>, ignored_broken_NAL_units |-> 0]

\* access_unit.append(nal, starts_primary, pending): the pending NAL units
\* go in first, then the NAL unit itself; primary_starts keeps the NAL units
\* that were appended as the start of the primary picture.
append(au, nal, starts_primary, pending) ==
    [au EXCEPT !.nal_units = au.nal_units \o pending \o <<nal>>,
               !.started_primary_picture =
                   au.started_primary_picture \/ starts_primary,
               !.primary_starts =
                   IF starts_primary THEN Append(@, nal.id) ELSE @]

Discard(s, why) == {[id |-> s[i].id, why |-> why] : i \in DOMAIN s}

Out(ctx, au, stop, warns, drops) ==
    [context |-> ctx, access_unit |-> au, stop |-> stop,
     warns |-> warns, drops |-> drops]

quiet == FALSE

\* ------------------------------------------------------------------------
\* The branches of the loop body, lines 47-145
\* slice_branch with the redundant slice appended like any other
slice_branch_keeps_redundant(ctx, au, nal) ==
    IF ~au.started_primary_picture
    THEN Out([ctx EXCEPT !.pending_list = <<>>,
                         !.earlier_primary_start = nal],
             append(au, nal, TRUE, ctx.pending_list), FALSE, <<>>, {})
    ELSE IF is_first_VCL_NAL(nal, ctx.earlier_primary_start)
    THEN Out([ctx EXCEPT !.earlier_primary_start = nal,
                         !.pending_nal = nal],
             au, TRUE, <<>>, {})
    ELSE Out([ctx EXCEPT !.pending_list = <<>>],
             append(au, nal, FALSE, ctx.pending_list), FALSE, <<>>, {})

\* slice_branch with the continuation slice left out of the access unit
slice_branch_skips_continuation(ctx, au, nal) ==
    IF ~au.started_primary_picture
    THEN Out([ctx EXCEPT !.pending_list = <<>>,
                         !.earlier_primary_start = nal],
             append(au, nal, TRUE, ctx.pending_list), FALSE, <<>>, {})
    ELSE IF is_first_VCL_NAL(nal, ctx.earlier_primary_start)
    THEN Out([ctx EXCEPT !.earlier_primary_start = nal,
                         !.pending_nal = nal],
             au, TRUE, <<>>, {})
    ELSE IF nal_is_redundant(nal)
    THEN Out(ctx, au, FALSE, <<>>, {[id |-> nal.id, why |-> "redundant"]})
    ELSE Out(ctx, au, FALSE, <<>>, {[id |-> nal.id, why |-> "redundant"]})

\* slice_branch that holds the next start back without remembering it as
\* earlier_primary_start
slice_branch_forgets_start(ctx, au, nal) ==
    IF ~au.started_primary_picture
    THEN Out([ctx EXCEPT !.pending_list = <<>>,
                         !.earlier_primary_start = nal],
             append(au, nal, TRUE, ctx.pending_list), FALSE, <<>>, {})
    ELSE IF is_first_VCL_NAL(nal, ctx.earlier_primary_start)
    THEN Out([ctx EXCEPT !.pending_nal = nal], au, TRUE, <<>>, {})
    ELSE IF nal_is_redundant(nal)
    THEN Out(ctx, au, FALSE, <<>>, {[id |-> nal.id, why |-> "redundant"]})
    ELSE Out([ctx EXCEPT !.pending_list = <<>>],
             append(au, nal, FALSE, ctx.pending_list), FALSE, <<>>, {})

\* slice_branch that appends the start of the next primary picture to the
\* access unit in progress
slice_branch_restarts(ctx, au, nal) ==
    IF ~au.started_primary_picture
    THEN Out([ctx EXCEPT !.pending_list = <<>>,
                         !.earlier_primary_start = nal],
             append(au, nal, TRUE, ctx.pending_list), FALSE, <<>>, {})
    ELSE IF is_first_VCL_NAL(nal, ctx.earlier_primary_start)
    THEN Out([ctx EXCEPT !.earlier_primary_start = nal,
                         !.pending_list = <<>>],
             append(au, nal, TRUE, ctx.pending_list), FALSE, <<>>, {})
    ELSE IF nal_is_redundant(nal)
    THEN Out(ctx, au, FALSE, <<>>, {[id |-> nal.id, why |-> "redundant"]})
    ELSE Out([ctx EXCEPT !.pending_list = <<>>],
             append(au, nal, FALSE, ctx.pending_list), FALSE, <<>>, {})

\* slice_branch that leaves the pending list as it is after a continuation
\* slice
slice_branch_keeps_pending(ctx, au, nal) ==
    IF ~au.started_primary_picture
    THEN Out([ctx EXCEPT !.pending_list = <<>>,
                         !.earlier_primary_start = nal],
             append(au, nal, TRUE, ctx.pending_list), FALSE, <<>>, {})
    ELSE IF is_first_VCL_NAL(nal, ctx.earlier_primary_start)
    THEN Out([ctx EXCEPT !.earlier_primary_start = nal,
                         !.pending_nal = nal],
             au, TRUE, <<>>, {})
    ELSE IF nal_is_redundant(nal)
    THEN Out(ctx, au, FALSE, <<>>, {[id |-> nal.id, why |-> "redundant"]})
    ELSE Out(ctx, append(au, nal, FALSE, ctx.pending_list), FALSE, <<>>, {})

slice_branch(ctx, au, nal) ==
    IF ~au.started_primary_picture
    THEN Out([ctx EXCEPT !.pending_list = <<>>,
                         !.earlier_primary_start = nal],
             append(au, nal, TRUE, ctx.pending_list), FALSE, <<>>, {})
    ELSE IF is_first_VCL_NAL(nal, ctx.earlier_primary_start)
    THEN IF au.started_primary_picture
         THEN Out([ctx EXCEPT !.earlier_primary_start = nal,
                              !.pending_nal = nal],
                  au, TRUE, <<>>, {})
         ELSE Out([ctx EXCEPT !.earlier_primary_start = nal,
                              !.pending_list = <<>>],
                  append(au, nal, TRUE, ctx.pending_list), FALSE, <<>>, {})
    ELSE IF ~au.started_primary_picture
    THEN Out(ctx, au, FALSE,
             IF quiet THEN <<>> ELSE <<"Ignoring VCL NAL that cannot start a new primary picture">>,
             {[id |-> nal.id, why |-> "cannot start"]})
    ELSE IF nal_is_redundant(nal)
    THEN Out(ctx, au, FALSE, <<>>, {[id |-> nal.id, why |-> "redundant"]})
    ELSE Out([ctx EXCEPT !.pending_list = <<>>],
             append(au, nal, FALSE, ctx.pending_list), FALSE, <<>>, {})

\* access_unit_delim_branch that keeps what the access unit already holds
access_unit_delim_branch_keeps_units(ctx, au, nal) ==
    IF au.started_primary_picture
    THEN Out([ctx EXCEPT !.pending_list = Append(ctx.pending_list, nal)],
             au, TRUE, <<>>, {})
    ELSE Out([ctx EXCEPT !.pending_list = <<>>],
             append(au, nal, FALSE, <<>>),
             FALSE,
             IF Len(ctx.pending_list) > 0
             THEN <<"Ignoring items after last VCL NAL and before Access Unit Delimiter">>
             ELSE <<>>,
             Discard(ctx.pending_list, "discarded"))

\* access_unit_delim_branch that starts the access unit afresh, counter of
\* broken NAL units included
access_unit_delim_branch_resets_count(ctx, au, nal) ==
    IF au.started_primary_picture
    THEN Out([ctx EXCEPT !.pending_list = Append(ctx.pending_list, nal)],
             au, TRUE, <<>>, {})
    ELSE Out([ctx EXCEPT !.pending_list = <<>>],
             append(build_access_unit, nal, FALSE, <<>>),
             FALSE,
             (IF Len(ctx.pending_list) > 0
              THEN <<"Ignoring items after last VCL NAL and before Access Unit Delimiter">>
              ELSE <<>>)
             \o (IF Len(au.nal_units) > 0
                 THEN <<"Ignoring incomplete access unit">>
                 ELSE <<>>),
             Discard(ctx.pending_list, "discarded")
                 \cup Discard(au.nal_units, "discarded"))

\* access_unit_delim_branch that takes the delimiter into the access unit
\* in progress whether or not it has a primary picture
access_unit_delim_branch_never_stops(ctx, au, nal) ==
    IF au.started_primary_picture
    THEN Out([ctx EXCEPT !.pending_list = <<>>],
             append(au, nal, FALSE, ctx.pending_list), FALSE, <<>>, {})
    ELSE Out([ctx EXCEPT !.pending_list = <<>>],
             append([au EXCEPT !.nal_units = <<>>], nal, FALSE, <<>>),
             FALSE,
             (IF Len(ctx.pending_list) > 0
              THEN <<"Ignoring items after last VCL NAL and before Access Unit Delimiter">>
              ELSE <<>>)
             \o (IF Len(au.nal_units) > 0
                 THEN <<"Ignoring incomplete access unit">>
                 ELSE <<>>),
             Discard(ctx.pending_list, "discarded")
                 \cup Discard(au.nal_units, "discarded"))

\* access_unit_delim_branch that leaves the pending list as it is
access_unit_delim_branch_keeps_pending(ctx, au, nal) ==
    IF au.started_primary_picture
    THEN Out([ctx EXCEPT !.pending_list = Append(ctx.pending_list, nal)],
             au, TRUE, <<>>, {})
    ELSE Out(ctx,
             append([au EXCEPT !.nal_units = <<>>], nal, FALSE, <<>>),
             FALSE,
             IF Len(au.nal_units) > 0
             THEN <<"Ignoring incomplete access unit">>
             ELSE <<>>,
             Discard(au.nal_units, "discarded"))

access_unit_delim_branch(ctx, au, nal) ==
    IF au.started_primary_picture
    THEN Out([ctx EXCEPT !.pending_list = Append(ctx.pending_list, nal)],
             au, TRUE, <<>>, {})
    ELSE Out([ctx EXCEPT !.pending_list = <<>>],
             append([au EXCEPT !.nal_units = <<>>], nal, FALSE, <<>>),
             FALSE,
             (IF Len(ctx.pending_list) > 0
              THEN <<"Ignoring items after last VCL NAL and before Access Unit Delimiter">>
              ELSE <<>>)
             \o (IF Len(au.nal_units) > 0
                 THEN <<"Ignoring incomplete access unit">>
                 ELSE <<>>),
             Discard(ctx.pending_list, "discarded")
                 \cup Discard(au.nal_units, "discarded"))

\* SEI_branch that ends the access unit whether or not it has a primary
\* picture
SEI_branch_always_stops(ctx, au, nal) ==
    Out([ctx EXCEPT !.pending_list = Append(ctx.pending_list, nal)],
        au, TRUE, <<>>, {})

SEI_branch(ctx, au, nal) ==
    IF au.started_primary_picture
    THEN Out([ctx EXCEPT !.pending_list = Append(ctx.pending_list, nal)],
             au, TRUE, <<>>, {})
    ELSE Out([ctx EXCEPT !.pending_list = Append(ctx.pending_list, nal)],
             au, FALSE, <<>>, {})

\* context_NAL_branch that adds the NAL unit to the access unit at once
context_NAL_branch_appends(ctx, au, nal) ==
    Out(ctx, append(au, nal, FALSE, <<>>), FALSE, <<>>, {})

\* context_NAL_branch that forgets the NAL unit
context_NAL_branch_forgets(ctx, au, nal) ==
    Out(ctx, au, FALSE, <<>>, {})

context_NAL_branch(ctx, au, nal) ==
    Out([ctx EXCEPT !.pending_list = Append(ctx.pending_list, nal)],
        au, FALSE, <<>>, {})

\* As the code is indented, remembering the marker and leaving the loop are
\* part of the body of the "if" on the pending list.
end_of_seq_branch(ctx, au, nal) ==
    IF Len(ctx.pending_list) > 0
    THEN Out([ctx EXCEPT !.pending_list = <<>>, !.end_of_sequence = nal],
             au, TRUE,
             <<"Ignoring items after last VCL NAL and before End of Sequence">>,
             Discard(ctx.pending_list, "discarded")
                 \cup {[id |-> nal.id, why |-> "marker"]})
    ELSE Out(ctx, au, FALSE, <<>>, {[id |-> nal.id, why |-> "ignored"]})

\* end_of_stream_branch that does not remember the marker
end_of_stream_branch_forgets_marker(ctx, au, nal) ==
    Out([ctx EXCEPT !.no_more_data = TRUE],
        au, TRUE, <<>>, {[id |-> nal.id, why |-> "marker"]})

end_of_stream_branch(ctx, au, nal) ==
    Out([ctx EXCEPT !.end_of_stream = nal, !.no_more_data = TRUE],
        au, TRUE, <<>>, {[id |-> nal.id, why |-> "marker"]})

other_branch(ctx, au, nal) ==
    Out(ctx, au, FALSE, <<>>, {[id |-> nal.id, why |-> "ignored"]})

\* ------------------------------------------------------------------------
\* The NAL unit source
NextNALs ==
    {[id |-> Len(delivered) + 1, nal_unit_type |-> t, frame_num |-> f,
      redundant |-> r] :
        t \in NalTypes, f \in FrameNums, r \in BOOLEAN}

\* The fields a NAL unit of this type has: only slices have a slice header.
WellFormed(nal) ==
    is_slice(nal) \/ (nal.frame_num = 0 /\ ~nal.redundant)

\* context.find_next_NAL_unit() returns nal
find_next_NAL_unit(nal) ==
    /\ ~exhausted
    /\ Len(delivered) + broken_total < MaxReads
    /\ nal \in NextNALs
    /\ WellFormed(nal)
    /\ delivered' = Append(delivered, nal)
    /\ call' = [call EXCEPT !.reads = @ + 1, !.last_nal = nal]
    /\ UNCHANGED <<exhausted, broken_total>>

\* One iteration of the loop that read nal and took the branch with result o
Iterate(nal, o) ==
    /\ context' = o.context
    /\ access_unit' = o.access_unit
    /\ pc' = IF o.stop THEN "done" ELSE "loop"
    /\ warnings' = warnings \o [i \in DOMAIN o.warns |->
                                   [msg |-> o.warns[i], at |-> nal.id]]
    /\ dropped' = dropped \cup o.drops
    /\ UNCHANGED <<results, packet_vars>>

\* ------------------------------------------------------------------------
\* The state before the first call of get_next_access_unit
NoCall ==
    /\ delivered = <<>>
    /\ exhausted = FALSE
    /\ broken_total = 0
    /\ context = [pending_nal |-> NULL, pending_list |-> <<>>,
                  earlier_primary_start |-> NULL, no_more_data |-> FALSE,
                  end_of_sequence |-> NULL, end_of_stream |-> NULL,
                  access_unit_index |-> 0]
    /\ access_unit = build_access_unit
    /\ pc = "idle"
    /\ call = [no_more_data_at_start |-> FALSE,
               end_of_stream_at_start |-> NULL, reads |-> 0,
               read_EOF |-> FALSE, last_nal |-> NULL, carried |-> NULL,
               carried_list |-> <<>>, broken_before |-> 0]
    /\ results = <<>>
    /\ warnings = <<>>
    /\ dropped = {}

\* The state of main() of sockread.py before it has read anything (lines
\* 60-65)
NoPacket ==
    /\ sock = "open"
    /\ data = <<>>
    /\ total = 0
    /\ step = "main"
    /\ received = <<>>
    /\ total_packets = 0

Init ==
    /\ NoCall
    /\ packet_size = 188
    /\ NoPacket

\* Begin that appends the carried NAL unit without the pending list
Begin_forgets_pending_list ==
    /\ pc = "idle"
    /\ Len(results) < MaxCalls
    /\ IF context.pending_nal # NULL
       THEN /\ access_unit' = append(build_access_unit, context.pending_nal,
                                     TRUE, <<>>)
            /\ context' = [context EXCEPT !.pending_nal = NULL,
                                          !.pending_list = <<>>]
       ELSE /\ access_unit' = build_access_unit
            /\ UNCHANGED context
    /\ pc' = "loop"
    /\ call' = [no_more_data_at_start |-> context.no_more_data,
                end_of_stream_at_start |-> context.end_of_stream,
                reads |-> 0, read_EOF |-> FALSE, last_nal |-> NULL,
                carried |-> context.pending_nal,
                carried_list |-> context.pending_list,
                broken_before |-> broken_total]
    /\ UNCHANGED packet_vars
    /\ UNCHANGED <<delivered, exhausted, broken_total, results, warnings,
                   dropped>>

\* Begin without the reset of the pending list
Begin_keeps_pending_list ==
    /\ pc = "idle"
    /\ Len(results) < MaxCalls
    /\ IF context.pending_nal # NULL
       THEN /\ access_unit' = append(build_access_unit, context.pending_nal,
                                     TRUE, context.pending_list)
            /\ context' = [context EXCEPT !.pending_nal = NULL]
       ELSE /\ access_unit' = build_access_unit
            /\ UNCHANGED context
    /\ pc' = "loop"
    /\ call' = [no_more_data_at_start |-> context.no_more_data,
                end_of_stream_at_start |-> context.end_of_stream,
                reads |-> 0, read_EOF |-> FALSE, last_nal |-> NULL,
                carried |-> context.pending_nal,
                carried_list |-> context.pending_list,
                broken_before |-> broken_total]
    /\ UNCHANGED packet_vars
    /\ UNCHANGED <<delivered, exhausted, broken_total, results, warnings,
                   dropped>>

\* Lines 30-34
Begin ==
    /\ pc = "idle"
    /\ Len(results) < MaxCalls
    /\ IF context.pending_nal # NULL
       THEN /\ access_unit' = append(build_access_unit, context.pending_nal,
                                     TRUE, context.pending_list)
            /\ context' = [context EXCEPT !.pending_nal = NULL,
                                          !.pending_list = <<>>]
       ELSE /\ access_unit' = build_access_unit
            /\ UNCHANGED context
    /\ pc' = "loop"
    /\ call' = [no_more_data_at_start |-> context.no_more_data,
                end_of_stream_at_start |-> context.end_of_stream,
                reads |-> 0, read_EOF |-> FALSE, last_nal |-> NULL,
                carried |-> context.pending_nal,
                carried_list |-> context.pending_list,
                broken_before |-> broken_total]
    /\ UNCHANGED packet_vars
    /\ UNCHANGED <<delivered, exhausted, broken_total, results, warnings,
                   dropped>>

\* Lines 39-41; the source raises EOF when it has nothing more, and keeps
\* doing so.
ReadEOF ==
    /\ pc = "loop"
    /\ exhausted' = TRUE
    /\ context' = [context EXCEPT !.no_more_data = TRUE]
    /\ pc' = "done"
    /\ call' = [call EXCEPT !.reads = @ + 1, !.read_EOF = TRUE]
    /\ UNCHANGED packet_vars
    /\ UNCHANGED <<delivered, broken_total, access_unit, results, warnings,
                   dropped>>

\* Lines 42-45
ReadBroken ==
    /\ pc = "loop"
    /\ ~exhausted
    /\ Len(delivered) + broken_total < MaxReads
    /\ broken_total' = broken_total + 1
    /\ warnings' = Append(warnings,
                          [msg |-> "Ignoring broken NAL unit", at |-> 0])
    /\ access_unit' = [access_unit EXCEPT !.ignored_broken_NAL_units = @ + 1]
    /\ call' = [call EXCEPT !.reads = @ + 1]
    /\ UNCHANGED packet_vars
    /\ UNCHANGED <<delivered, exhausted, context, pc, results, dropped>>

\* Lines 47-85
ReadSlice ==
    /\ pc = "loop"
    /\ \E nal \in NextNALs :
        /\ find_next_NAL_unit(nal)
        /\ is_slice(nal)
        /\ Iterate(nal, slice_branch(context, access_unit, nal))

\* Lines 86-102
ReadAccessUnitDelim ==
    /\ pc = "loop"
    /\ \E nal \in NextNALs :
        /\ find_next_NAL_unit(nal)
        /\ ~is_slice(nal)
        /\ nal.nal_unit_type = NAL_ACCESS_UNIT_DELIM
        /\ Iterate(nal, access_unit_delim_branch(context, access_unit, nal))

\* Lines 103-111
ReadSEI ==
    /\ pc = "loop"
    /\ \E nal \in NextNALs :
        /\ find_next_NAL_unit(nal)
        /\ ~is_slice(nal)
        /\ nal.nal_unit_type = NAL_SEI
        /\ Iterate(nal, SEI_branch(context, access_unit, nal))

\* Lines 112-121
ReadContextNAL ==
    /\ pc = "loop"
    /\ \E nal \in NextNALs :
        /\ find_next_NAL_unit(nal)
        /\ ~is_slice(nal)
        /\ nal.nal_unit_type \notin {NAL_ACCESS_UNIT_DELIM, NAL_SEI}
        /\ is_context_NAL(nal)
        /\ Iterate(nal, context_NAL_branch(context, access_unit, nal))

\* Lines 122-130
ReadEndOfSeq ==
    /\ pc = "loop"
    /\ \E nal \in NextNALs :
        /\ find_next_NAL_unit(nal)
        /\ ~is_slice(nal)
        /\ nal.nal_unit_type = NAL_END_OF_SEQ
        /\ Iterate(nal, end_of_seq_branch(context, access_unit, nal))

\* Lines 131-139
ReadEndOfStream ==
    /\ pc = "loop"
    /\ \E nal \in NextNALs :
        /\ find_next_NAL_unit(nal)
        /\ ~is_slice(nal)
        /\ nal.nal_unit_type = NAL_END_OF_STREAM
        /\ Iterate(nal, end_of_stream_branch(context, access_unit, nal))

\* Lines 140-145
ReadOther ==
    /\ pc = "loop"
    /\ \E nal \in NextNALs :
        /\ find_next_NAL_unit(nal)
        /\ ~is_slice(nal)
        /\ nal.nal_unit_type \notin {NAL_ACCESS_UNIT_DELIM, NAL_SEI,
                                     NAL_END_OF_SEQ, NAL_END_OF_STREAM}
        /\ ~is_context_NAL(nal)
        /\ Iterate(nal, other_branch(context, access_unit, nal))

\* Finish that counts the calls that fail as well
Finish_counts_failures ==
    /\ pc = "done"
    /\ IF context.no_more_data /\ Len(access_unit.nal_units) = 0
       THEN results' = Append(results,
                   [EOF |-> TRUE, access_unit |-> access_unit, call |-> call,
                    no_more_data |-> context.no_more_data,
                    end_of_sequence |-> context.end_of_sequence,
                    end_of_stream |-> context.end_of_stream])
       ELSE results' = Append(results,
                   [EOF |-> FALSE, access_unit |-> access_unit, call |-> call,
                    no_more_data |-> context.no_more_data,
                    end_of_sequence |-> context.end_of_sequence,
                    end_of_stream |-> context.end_of_stream])
    /\ context' = [context EXCEPT !.access_unit_index = @ + 1]
    /\ pc' = "idle"
    /\ UNCHANGED packet_vars
    /\ UNCHANGED <<delivered, exhausted, broken_total, access_unit, call,
                   warnings, dropped>>

\* Finish that raises EOF whenever no_more_data is set
Finish_ignores_units ==
    /\ pc = "done"
    /\ IF context.no_more_data
       THEN /\ results' = Append(results,
                   [EOF |-> TRUE, access_unit |-> access_unit, call |-> call,
                    no_more_data |-> context.no_more_data,
                    end_of_sequence |-> context.end_of_sequence,
                    end_of_stream |-> context.end_of_stream])
            /\ UNCHANGED context
       ELSE /\ results' = Append(results,
                   [EOF |-> FALSE, access_unit |-> access_unit, call |-> call,
                    no_more_data |-> context.no_more_data,
                    end_of_sequence |-> context.end_of_sequence,
                    end_of_stream |-> context.end_of_stream])
            /\ context' = [context EXCEPT !.access_unit_index = @ + 1]
    /\ pc' = "idle"
    /\ UNCHANGED packet_vars
    /\ UNCHANGED <<delivered, exhausted, broken_total, access_unit, call,
                   warnings, dropped>>

\* Lines 147-159
Finish ==
    /\ pc = "done"
    /\ IF context.no_more_data /\ Len(access_unit.nal_units) = 0
       THEN /\ results' = Append(results,
                   [EOF |-> TRUE, access_unit |-> access_unit, call |-> call,
                    no_more_data |-> context.no_more_data,
                    end_of_sequence |-> context.end_of_sequence,
                    end_of_stream |-> context.end_of_stream])
            /\ UNCHANGED context
       ELSE /\ results' = Append(results,
                   [EOF |-> FALSE, access_unit |-> access_unit, call |-> call,
                    no_more_data |-> context.no_more_data,
                    end_of_sequence |-> context.end_of_sequence,
                    end_of_stream |-> context.end_of_stream])
            /\ context' = [context EXCEPT !.access_unit_index = @ + 1]
    /\ pc' = "idle"
    /\ UNCHANGED packet_vars
    /\ UNCHANGED <<delivered, exhausted, broken_total, access_unit, call,
                   warnings, dropped>>

Next ==
    \/ Begin
    \/ ReadEOF
    \/ ReadBroken
    \/ ReadSlice
    \/ ReadAccessUnitDelim
    \/ ReadSEI
    \/ ReadContextNAL
    \/ ReadEndOfSeq
    \/ ReadEndOfStream
    \/ ReadOther
    \/ Finish

Spec == Init /\ [][Next]_vars

\* ------------------------------------------------------------------------
\* get_packet of sockread.py (lines 35-45; socktest.py has the same code)

\* The bytes a peer sends: 0x47 starts a transport stream packet (line 51)
Bytes == {0, 71}

\* What sock.recv(n) may return: up to n bytes, none only when the peer has
\* closed the connection
recv(n) ==
    IF sock = "closed" THEN {<<>>}
    ELSE UNION {[1..k -> Bytes] : k \in 0..n}

PacketInit ==
    /\ NoCall
    /\ packet_size \in 1..MaxPacketSize
    /\ NoPacket

\* main() calls read_next_packet, which calls get_packet: lines 38-39
GetPacket ==
    /\ step = "main"
    /\ total_packets < MaxPackets
    /\ data' = <<>>
    /\ total' = 0
    /\ received' = <<>>
    /\ step' = "loop"
    /\ UNCHANGED <<sock, packet_size, total_packets>>
    /\ UNCHANGED unit_vars

\* One iteration of the loop: lines 40-44
Recv ==
    /\ step = "loop"
    /\ total < packet_size
    /\ \E chunk \in recv(packet_size - total) :
          /\ data' = data \o chunk
          /\ received' = received \o chunk
          /\ sock' = IF chunk = <<>> THEN "closed" ELSE sock
    /\ IF Len(data') = 0
       THEN /\ step' = "DoneException"
            /\ UNCHANGED total
       ELSE /\ total' = total + Len(data')
            /\ step' = "loop"
    /\ UNCHANGED <<packet_size, total_packets>>
    /\ UNCHANGED unit_vars

\* The loop is left and data returned (line 45); main() counts the packet
\* (line 73)
Return ==
    /\ step = "loop"
    /\ ~(total < packet_size)
    /\ step' = "main"
    /\ total_packets' = total_packets + 1
    /\ UNCHANGED <<sock, packet_size, data, total, received>>
    /\ UNCHANGED unit_vars

NextPacket ==
    \/ GetPacket
    \/ Recv
    \/ Return

SpecPacket == PacketInit /\ [][NextPacket]_vars

\* ------------------------------------------------------------------------
TypeOK ==
    /\ pc \in {"idle", "loop", "done"}
    /\ Len(delivered) + broken_total <= MaxReads
    /\ Len(results) <= MaxCalls

\* ------------------------------------------------------------------------
\* What the caller has got so far
AUs == SelectSeq(results, LAMBDA r : ~r.EOF)

Output == Concat([i \in DOMAIN AUs |-> AUs[i].access_unit.nal_units])

Last(s) == s[Len(s)]

\* This step read a NAL unit from the source
ReadsNAL == Len(delivered') = Len(delivered) + 1

\* C1: once no_more_data has been set by reading an end-of-stream NAL, every
\* later call fails with EndOfData, whatever the source still has.
C1_EndOfDataAfterEndOfStream ==
    \A k \in DOMAIN results :
        (results[k].call.no_more_data_at_start
            /\ results[k].call.end_of_stream_at_start # NULL)
        => results[k].EOF

\* C2: no_more_data is never reset, and a call made while it is already set
\* fails with EndOfData without reading from the source.
C2_StickyNoRead ==
    [][/\ context.no_more_data => context'.no_more_data
       /\ (pc = "loop" /\ call.no_more_data_at_start)
              => (call'.reads = call.reads /\ delivered' = delivered)
       /\ (pc = "done" /\ call.no_more_data_at_start)
              => Last(results').EOF]_vars

\* The stream of C3: one delimiter, slices of one picture (all but the first
\* ordinary continuation slices), one end-of-stream NAL.
IsDelimSlicesEndOfStream(s) ==
    /\ Len(s) >= 2
    /\ s[1].nal_unit_type = NAL_ACCESS_UNIT_DELIM
    /\ s[Len(s)].nal_unit_type = NAL_END_OF_STREAM
    /\ \A i \in 2..(Len(s) - 1) :
          /\ is_slice(s[i])
          /\ i > 2 => (~s[i].redundant /\ s[i].frame_num = s[2].frame_num)

\* C3: on delimiter, N slices, end-of-stream, the first call returns the
\* delimiter followed by the N slices and the second call fails with
\* EndOfData.
C3_DelimSlicesEndOfStream ==
    IsDelimSlicesEndOfStream(delivered) =>
        /\ Len(results) >= 1 =>
              /\ ~results[1].EOF
              /\ results[1].access_unit.nal_units
                     = SubSeq(delivered, 1, Len(delivered) - 1)
        /\ Len(results) >= 2 => results[2].EOF

C3_Witness ==
    /\ IsDelimSlicesEndOfStream(delivered)
    /\ Len(delivered) = 4
    /\ Len(results) = 2

\* C6: what has been returned, followed by the access unit in progress, is
\* in source order without repetition, and every NAL unit in it is the one
\* the source delivered.
C6_OrderPreserved ==
    LET out == Output \o (IF pc = "idle" THEN <<>> ELSE access_unit.nal_units)
    IN  /\ \A i \in DOMAIN out :
              /\ out[i].id \in DOMAIN delivered
              /\ out[i] = delivered[out[i].id]
        /\ \A i, j \in DOMAIN out : i < j => out[i].id < out[j].id

\* Two access units returned, the second with a NAL unit flushed from the
\* pending list before the slice that was carried over.
C6_Witness ==
    /\ Len(AUs) >= 2
    /\ Len(AUs[2].access_unit.nal_units) >= 2
    /\ ~is_slice(AUs[2].access_unit.nal_units[1])
    /\ AUs[2].call.reads < Len(AUs[2].access_unit.nal_units) + 1

\* C10: a call fails with EndOfData exactly when no_more_data is set after
\* the loop and the access unit is empty; an access unit that holds a NAL
\* unit when the source reports end-of-data is returned, and it is the next
\* call that fails.
C10_EndOfDataExactly ==
    \A k \in DOMAIN results :
        /\ results[k].EOF <=>
              (results[k].no_more_data
                  /\ Len(results[k].access_unit.nal_units) = 0)
        /\ (results[k].call.read_EOF
               /\ Len(results[k].access_unit.nal_units) > 0) =>
              /\ ~results[k].EOF
              /\ (k + 1) \in DOMAIN results => results[k + 1].EOF

C10_Witness ==
    \E k \in DOMAIN results :
        /\ results[k].call.read_EOF
        /\ Len(results[k].access_unit.nal_units) > 0
        /\ (k + 1) \in DOMAIN results
        /\ results[k + 1].EOF

\* ------------------------------------------------------------------------
SetMax(S) == CHOOSE x \in S : \A y \in S : y <= x

SetMin(S) == CHOOSE x \in S : \A y \in S : x <= y

NALsOf(r) == Range(r.access_unit.nal_units)

SliceIds(r) == {n.id : n \in {x \in NALsOf(r) : is_slice(x)}}

DroppedIds == {d.id : d \in dropped}

\* NAL units read and neither returned nor thrown away yet
HeldIds ==
    Ids(context.pending_list)
        \cup (IF context.pending_nal # NULL
              THEN {context.pending_nal.id} ELSE {})
        \cup (IF pc = "idle" THEN {} ELSE Ids(access_unit.nal_units))

\* Returned access units a and b both have slices, none between them has,
\* and context NAL c was read after the last slice of a and before the
\* first slice of b.
ContextNALBetween(a, b, c) ==
    /\ a < b
    /\ SliceIds(AUs[a]) # {}
    /\ SliceIds(AUs[b]) # {}
    /\ \A j \in DOMAIN AUs : (a < j /\ j < b) => SliceIds(AUs[j]) = {}
    /\ is_context_NAL(c)
    /\ SetMax(SliceIds(AUs[a])) < c.id
    /\ c.id < SetMin(SliceIds(AUs[b]))

\* C4 as claimed: a context NAL read between the last slice of access unit
\* k and the first slice of access unit k+1 is in k+1 and not in k.
C4_ContextNALInNextUnit ==
    \A a, b \in DOMAIN AUs : \A c \in Range(delivered) :
        ContextNALBetween(a, b, c) =>
            /\ c \in NALsOf(AUs[b])
            /\ c \notin NALsOf(AUs[a])

\* C4 as amended: such a context NAL is in no access unit but k+1, and it
\* is in k+1 unless it was discarded with a warning at an access unit
\* delimiter or an end-of-sequence NAL read in between.
C4_ContextNALNextUnitOrDiscarded ==
    \A a, b \in DOMAIN AUs : \A c \in Range(delivered) :
        ContextNALBetween(a, b, c) =>
            /\ \A j \in DOMAIN AUs : j # b => c \notin NALsOf(AUs[j])
            /\ \/ c \in NALsOf(AUs[b])
               \/ /\ [id |-> c.id, why |-> "discarded"] \in dropped
                  /\ \E d \in Range(delivered) :
                        /\ c.id < d.id
                        /\ d.id < SetMin(SliceIds(AUs[b]))
                        /\ d.nal_unit_type \in {NAL_ACCESS_UNIT_DELIM,
                                                NAL_END_OF_SEQ}
                        /\ \E w \in Range(warnings) : w.at = d.id

C4_Witness ==
    \E a, b \in DOMAIN AUs : \E c \in Range(delivered) :
        /\ ContextNALBetween(a, b, c)
        /\ b = a + 1
        /\ c \in NALsOf(AUs[b])

\* The caller has been told that there is no more data
Finished ==
    /\ pc = "idle"
    /\ exhausted
    /\ Len(results) > 0
    /\ Last(results).EOF

\* C5 as claimed: when the stream has been read to its end, the returned
\* NAL lists together are the delivered NAL units minus only those dropped
\* as redundant or anomalous.
C5_RoundTripAsClaimed ==
    Finished =>
        Output = SelectSeq(delivered, LAMBDA n :
                    \A d \in dropped :
                        (d.id = n.id) =>
                            d.why \notin {"redundant", "discarded",
                                          "cannot start"})

\* C5 as amended: the returned NAL lists together are the delivered NAL
\* units minus those thrown away (redundant continuation slices, NAL units
\* discarded with a warning, NAL units of ignored types, the end-of-sequence
\* and end-of-stream NAL units) and those still held in the pending list,
\* in pending_nal or in the access unit in progress; no other slice is lost.
C5_RoundTrip ==
    /\ Output = SelectSeq(delivered, LAMBDA n :
                    n.id \notin (DroppedIds \cup HeldIds))
    /\ \A d \in dropped :
          LET n == delivered[d.id]
          IN  /\ is_slice(n) => (d.why = "redundant" /\ n.redundant)
              /\ d.why = "marker" =>
                    n.nal_unit_type \in {NAL_END_OF_SEQ, NAL_END_OF_STREAM}
              /\ d.why = "ignored" =>
                    /\ ~is_context_NAL(n)
                    /\ n.nal_unit_type \notin
                          {NAL_SEI, NAL_ACCESS_UNIT_DELIM, NAL_END_OF_STREAM}
              /\ d.why = "discarded" =>
                    \E w \in Range(warnings) : d.id < w.at

\* The stream has ended with two access units returned, something thrown
\* away and something left in the pending list.
C5_Witness ==
    /\ Finished
    /\ Len(AUs) >= 2
    /\ dropped # {}
    /\ context.pending_list # <<>>

\* C7: reading an end-of-sequence NAL records it in context.end_of_sequence
\* and ends the call's loop, with the pending list empty afterwards.
C7_EndOfSeqTerminates ==
    [][(ReadsNAL /\ Last(delivered').nal_unit_type = NAL_END_OF_SEQ) =>
          /\ context'.end_of_sequence = Last(delivered')
          /\ context'.pending_list = <<>>
          /\ pc' = "done"]_vars

\* C8 as claimed: a redundant slice is in no access unit, starts none and
\* is not remembered in the context.
C8_RedundantNeverKept ==
    \A n \in Range(delivered) :
        (is_slice(n) /\ nal_is_redundant(n)) =>
            /\ n.id \notin Ids(Output) \cup HeldIds
            /\ context.earlier_primary_start # n

\* C8 as amended: a redundant slice read while the access unit has its
\* primary picture, and not judged the first VCL NAL of a new primary
\* picture, is dropped silently: nothing but the source changes, and it is
\* never in an access unit.
C8_RedundantContinuationDropped ==
    /\ [][(/\ ReadsNAL
           /\ is_slice(Last(delivered'))
           /\ nal_is_redundant(Last(delivered'))
           /\ access_unit.started_primary_picture
           /\ ~is_first_VCL_NAL(Last(delivered'),
                                context.earlier_primary_start))
          => /\ context' = context
             /\ access_unit' = access_unit
             /\ pc' = pc
             /\ warnings' = warnings
             /\ results' = results]_vars
    /\ [](\A d \in dropped :
             d.why = "redundant" => d.id \notin Ids(Output) \cup HeldIds)

\* A redundant slice was dropped between two slices of one returned access
\* unit.
C8_Witness ==
    \E d \in dropped : \E r \in Range(AUs) :
        /\ d.why = "redundant"
        /\ \E x, y \in SliceIds(r) : x < d.id /\ d.id < y

\* Delivered NAL units i and i+1 are both access unit delimiters
TwoDelims(i) ==
    /\ i \in DOMAIN delivered
    /\ (i + 1) \in DOMAIN delivered
    /\ delivered[i].nal_unit_type = NAL_ACCESS_UNIT_DELIM
    /\ delivered[i + 1].nal_unit_type = NAL_ACCESS_UNIT_DELIM

\* C9 as claimed: two delimiters in a row give two access units, the second
\* starting with its own delimiter, and a warning only if something other
\* than a delimiter was held when the second was read.
C9_TwoDelimsTwoUnits ==
    Finished =>
        \A i \in DOMAIN delivered :
            TwoDelims(i) =>
                /\ \E j, k \in DOMAIN AUs :
                      /\ j < k
                      /\ delivered[i] \in NALsOf(AUs[j])
                      /\ AUs[k].access_unit.nal_units # <<>>
                      /\ Head(AUs[k].access_unit.nal_units) = delivered[i + 1]
                /\ (\E w \in Range(warnings) : w.at = i + 1) =>
                      \E d \in dropped :
                          /\ d.why = "discarded"
                          /\ delivered[d.id].nal_unit_type
                                 # NAL_ACCESS_UNIT_DELIM

\* C9 as amended: of two delimiters read in a row the first is discarded
\* with a warning, whatever preceded it, and is in no access unit; when the
\* second has been read the access unit in progress is exactly that
\* delimiter, with the pending list empty, and the call goes on reading.
C9_FirstDelimDiscarded ==
    /\ [](\A i \in DOMAIN delivered :
             TwoDelims(i) =>
                 /\ [id |-> i, why |-> "discarded"] \in dropped
                 /\ \E w \in Range(warnings) : w.at = i + 1
                 /\ i \notin Ids(Output) \cup HeldIds)
    /\ [][(/\ ReadsNAL
           /\ Last(delivered').nal_unit_type = NAL_ACCESS_UNIT_DELIM
           /\ delivered # <<>>
           /\ Last(delivered).nal_unit_type = NAL_ACCESS_UNIT_DELIM)
          => /\ access_unit'.nal_units = <<Last(delivered')>>
             /\ ~access_unit'.started_primary_picture
             /\ context'.pending_list = <<>>
             /\ pc' = "loop"]_vars

\* Two delimiters in a row, and an access unit returned that starts with
\* the second one.
C9_Witness ==
    \E i \in DOMAIN delivered : \E r \in Range(AUs) :
        /\ TwoDelims(i)
        /\ r.access_unit.nal_units # <<>>
        /\ Head(r.access_unit.nal_units) = delivered[i + 1]

\* ------------------------------------------------------------------------
IsMarker(nal) == nal.nal_unit_type \in {NAL_END_OF_SEQ, NAL_END_OF_STREAM}

\* The last thing finished call r read from the source was a NAL unit of
\* type t
EndedAt(r, t) ==
    /\ ~r.call.read_EOF
    /\ r.call.last_nal # NULL
    /\ r.call.last_nal.nal_unit_type = t

BrokenAfter(k) ==
    IF k < Len(results) THEN results[k + 1].call.broken_before
    ELSE IF pc = "idle" THEN broken_total
    ELSE call.broken_before

\* C12: a BrokenNALUnit report leaves the loop running and the NAL list and
\* the context as they are, and the ignored_broken_NAL_units of the access
\* unit of every call is the number of reports raised during that call.
C12_BrokenCounted ==
    /\ [][(broken_total' # broken_total) =>
             /\ pc = "loop" /\ pc' = "loop"
             /\ access_unit'.nal_units = access_unit.nal_units
             /\ access_unit'.started_primary_picture
                    = access_unit.started_primary_picture
             /\ context' = context
             /\ delivered' = delivered]_vars
    /\ [](/\ \A k \in DOMAIN results :
                results[k].access_unit.ignored_broken_NAL_units
                    = BrokenAfter(k) - results[k].call.broken_before
          /\ pc # "idle" =>
                access_unit.ignored_broken_NAL_units
                    = broken_total - call.broken_before)

\* An access unit returned with slices in it and a broken NAL unit counted,
\* after an earlier call that had one counted too.
C12_Witness ==
    \E j, k \in DOMAIN results :
        /\ j < k
        /\ results[j].access_unit.ignored_broken_NAL_units = 1
        /\ ~results[k].EOF
        /\ results[k].access_unit.ignored_broken_NAL_units = 1
        /\ results[k].access_unit.started_primary_picture

\* C13: access_unit_index is the number of calls that returned an access
\* unit: a call that returns adds one, a call that fails leaves it, and no
\* step lowers it.
C13_IndexCountsReturned ==
    /\ [](context.access_unit_index = Len(AUs))
    /\ [][/\ context'.access_unit_index >= context.access_unit_index
          /\ (pc = "done" /\ ~Last(results').EOF) =>
                context'.access_unit_index = context.access_unit_index + 1
          /\ (pc = "done" /\ Last(results').EOF) =>
                context'.access_unit_index = context.access_unit_index
          /\ pc # "done" =>
                context'.access_unit_index = context.access_unit_index]_vars

\* Two access units returned and a call failed
C13_Witness ==
    /\ context.access_unit_index = 2
    /\ \E k \in DOMAIN results : results[k].EOF

\* ------------------------------------------------------------------------
\* This step read a slice while the access unit had no primary picture, and
\* the slice is not the first VCL NAL of a new primary picture
ReadsNonStarter ==
    /\ ReadsNAL
    /\ is_slice(Last(delivered'))
    /\ ~access_unit.started_primary_picture
    /\ ~is_first_VCL_NAL(Last(delivered'), context.earlier_primary_start)

\* C14: a slice read while the access unit has no primary picture, and not
\* judged the first VCL NAL of a new primary picture, is dropped with a
\* warning: it is not appended and started_primary_picture stays false.
C14_NonStarterDropped ==
    [][ReadsNonStarter =>
          /\ access_unit'.nal_units = access_unit.nal_units
          /\ ~access_unit'.started_primary_picture
          /\ Len(warnings') = Len(warnings) + 1]_vars

\* This step read a slice that is the first VCL NAL of a new primary picture
\* while the access unit had its primary picture
ReadsNextStart ==
    /\ ReadsNAL
    /\ is_slice(Last(delivered'))
    /\ access_unit.started_primary_picture
    /\ is_first_VCL_NAL(Last(delivered'), context.earlier_primary_start)

\* C15: a slice that starts a new primary picture, read while the access
\* unit has its primary picture, is put in context.pending_nal and ends the
\* loop with the access unit unchanged; that call returns the access unit,
\* and the next call starts its access unit with the pending list followed
\* by this slice, clears pending_nal and the pending list, and returns an
\* access unit that begins with them.
C15_HandOver ==
    /\ [][/\ ReadsNextStart =>
                /\ context'.pending_nal = Last(delivered')
                /\ context'.pending_list = context.pending_list
                /\ access_unit' = access_unit
                /\ pc' = "done"
          /\ (pc = "done" /\ context.pending_nal # NULL) =>
                /\ ~Last(results').EOF
                /\ Last(results').access_unit = access_unit
                /\ context.pending_nal.id \notin Ids(access_unit.nal_units)
                /\ context'.pending_nal = context.pending_nal
          /\ (pc = "idle" /\ context.pending_nal # NULL) =>
                /\ access_unit'.nal_units
                       = context.pending_list \o <<context.pending_nal>>
                /\ access_unit'.started_primary_picture
                /\ context'.pending_nal = NULL
                /\ context'.pending_list = <<>>]_vars
    /\ [](\A k \in DOMAIN results :
             results[k].call.carried # NULL =>
                 /\ k > 1
                 /\ ~results[k - 1].EOF
                 /\ results[k - 1].call.last_nal = results[k].call.carried
                 /\ ~results[k].EOF
                 /\ LET want == results[k].call.carried_list
                                    \o <<results[k].call.carried>>
                    IN  /\ Len(results[k].access_unit.nal_units) >= Len(want)
                        /\ SubSeq(results[k].access_unit.nal_units,
                                  1, Len(want)) = want)

\* A call returned an access unit that begins with a NAL unit from the
\* pending list and the slice carried over from the call before.
C15_Witness ==
    \E k \in DOMAIN results :
        /\ results[k].call.carried # NULL
        /\ results[k].call.carried_list # <<>>
        /\ ~results[k].EOF

\* ------------------------------------------------------------------------
IsDelim(nal) == nal.nal_unit_type = NAL_ACCESS_UNIT_DELIM

ReadsDelimBeforePicture ==
    /\ ReadsNAL
    /\ IsDelim(Last(delivered'))
    /\ ~access_unit.started_primary_picture

\* C17: an access unit delimiter read while the access unit has no primary
\* picture discards the pending list and the NAL list, with a warning for
\* each that was not empty and none otherwise; then the NAL list is that
\* delimiter alone, the pending list is empty and the loop goes on.
C17_DelimBeforePicture ==
    [][ReadsDelimBeforePicture =>
          /\ access_unit'.nal_units = <<Last(delivered')>>
          /\ ~access_unit'.started_primary_picture
          /\ context'.pending_list = <<>>
          /\ pc' = "loop"
          /\ dropped' = dropped
                 \cup Discard(context.pending_list, "discarded")
                 \cup Discard(access_unit.nal_units, "discarded")
          /\ Len(warnings') = Len(warnings)
                 + (IF context.pending_list # <<>> THEN 1 ELSE 0)
                 + (IF access_unit.nal_units # <<>> THEN 1 ELSE 0)
          /\ \A i \in (Len(warnings) + 1)..Len(warnings') :
                warnings'[i].at = Last(delivered').id]_vars

\* The access unit is a delimiter alone, just read, and what the pending
\* list held before it has been discarded with a warning.
C17_Witness ==
    /\ pc = "loop"
    /\ delivered # <<>>
    /\ IsDelim(Last(delivered))
    /\ access_unit.nal_units = <<Last(delivered)>>
    /\ \E w \in Range(warnings) :
          /\ w.at = Last(delivered).id
          /\ w.msg = "Ignoring items after last VCL NAL and before Access Unit Delimiter"

\* ------------------------------------------------------------------------
SlicesIn(units) == {i \in DOMAIN units : is_slice(units[i])}

\* started_primary_picture is set exactly when the NAL list has a slice, and
\* then the one NAL unit appended as start of the primary picture is the
\* first slice of the list
PrimaryPictureOK(au) ==
    /\ au.started_primary_picture <=> (SlicesIn(au.nal_units) # {})
    /\ Len(au.primary_starts) <= 1
    /\ au.started_primary_picture =>
          au.primary_starts
              = <<au.nal_units[SetMin(SlicesIn(au.nal_units))].id>>
    /\ ~au.started_primary_picture => au.primary_starts = <<>>

\* C18: within a call started_primary_picture never goes back to false, it
\* is true exactly when the NAL list holds a slice, and an access unit has at
\* most one slice taken as start of its primary picture, the first slice of
\* its list.
C18_PrimaryPictureOnce ==
    /\ [][(pc # "idle" /\ access_unit.started_primary_picture) =>
             access_unit'.started_primary_picture]_vars
    /\ [](/\ PrimaryPictureOK(access_unit)
          /\ \A k \in DOMAIN results :
                PrimaryPictureOK(results[k].access_unit))

\* An access unit returned with two slices, after NAL units that are not
\* slices.
C18_Witness ==
    \E k \in DOMAIN AUs :
        LET units == AUs[k].access_unit.nal_units
        IN  /\ Cardinality(SlicesIn(units)) >= 2
            /\ ~is_slice(units[1])

\* C19: the pending list holds only access unit delimiters, SEI and context
\* NAL units, none of them in a returned access unit or in the one in
\* progress, and all read after every slice that has been appended.
C19_PendingListUndecided ==
    \A i \in DOMAIN context.pending_list :
        LET p == context.pending_list[i]
        IN  /\ ~is_slice(p)
            /\ \/ IsDelim(p)
               \/ p.nal_unit_type = NAL_SEI
               \/ is_context_NAL(p)
            /\ p = delivered[p.id]
            /\ p.id \notin Ids(Output) \cup Ids(access_unit.nal_units)
            /\ \A x \in Range(Output) \cup Range(access_unit.nal_units) :
                  is_slice(x) => x.id < p.id
            /\ \A j \in DOMAIN context.pending_list :
                  i < j => p.id < context.pending_list[j].id

\* Two NAL units in the pending list after an access unit with a slice was
\* returned and a later slice was appended.
C19_Witness ==
    /\ Len(context.pending_list) >= 2
    /\ Len(AUs) >= 1
    /\ \E x \in Range(Output) : is_slice(x)

\* C20 as claimed: every access unit returned has at least one NAL unit.
C20_ReturnedNotEmpty ==
    \A k \in DOMAIN AUs : AUs[k].access_unit.nal_units # <<>>

\* C20 as amended: an access unit returned has at least one NAL unit unless
\* the call ended at an end-of-sequence NAL with no_more_data not set.
C20_EmptyOnlyAtEndOfSeq ==
    \A k \in DOMAIN AUs :
        AUs[k].access_unit.nal_units = <<>> =>
            /\ EndedAt(AUs[k], NAL_END_OF_SEQ)
            /\ AUs[k].end_of_sequence = AUs[k].call.last_nal
            /\ ~AUs[k].no_more_data

\* An empty access unit was returned, and a call that ended otherwise than
\* at an end-of-sequence NAL returned one that is not empty.
C20_Witness ==
    /\ \E k \in DOMAIN AUs : AUs[k].access_unit.nal_units = <<>>
    /\ \E k \in DOMAIN AUs :
          /\ ~EndedAt(AUs[k], NAL_END_OF_SEQ)
          /\ AUs[k].access_unit.nal_units # <<>>

\* ------------------------------------------------------------------------
\* C21: between calls pending_nal is null or a slice that is also
\* earlier_primary_start; it is not null only after a call that returned an
\* access unit with a primary picture, and it is null after every call that
\* failed with EndOfData.
C21_PendingNalBetweenCalls ==
    pc = "idle" =>
        /\ \/ context.pending_nal = NULL
           \/ /\ is_slice(context.pending_nal)
              /\ context.pending_nal = context.earlier_primary_start
        /\ context.pending_nal # NULL =>
              /\ Len(results) > 0
              /\ ~Last(results).EOF
              /\ Last(results).access_unit.started_primary_picture
              /\ Last(results).call.last_nal = context.pending_nal
        /\ (Len(results) > 0 /\ Last(results).EOF) =>
              context.pending_nal = NULL

\* Between calls, with a slice held back by the second call to return an
\* access unit after an earlier call had one held back for it.
C21_Witness ==
    /\ pc = "idle"
    /\ context.pending_nal # NULL
    /\ Len(results) >= 2
    /\ Last(results).call.carried # NULL

\* ------------------------------------------------------------------------
\* The calls that returned an access unit are no more than the NAL units the
\* source delivered
SuccessfulCallsBounded == Len(AUs) <= Len(delivered)

\* C22: on a finite stream there are at most as many successful calls as NAL
\* units delivered, and once a call has failed with EndOfData every later
\* call fails with EndOfData as well.
C22_EndOfDataFinal ==
    /\ SuccessfulCallsBounded
    /\ \A j, k \in DOMAIN results :
          (j < k /\ results[j].EOF) => results[k].EOF

\* ------------------------------------------------------------------------
\* get_packet has returned: data is the packet
Returned == step = "main" /\ total_packets > 0

\* C23: get_packet returns exactly packet_size bytes, the bytes received in
\* order, or raises DoneException when the peer has closed the connection;
\* it never returns fewer than packet_size bytes.
C23_ExactPacketOrDone ==
    /\ Returned => (Len(data) = packet_size /\ data = received)
    /\ step = "DoneException" => sock = "closed"
====
